---- MODULE Spec2Model ----
(***************************************************************************)
(* Adaptive backlight controller (src/main.py): the sample store, the      *)
(* brightness model, the override test and the sense/classify/act/sleep    *)
(* loop of main(), together with the files the loop reads and writes.      *)
(*                                                                         *)
(* An optional value (Python's None or an integer) is a set with at most   *)
(* one element: None is {} and a present value v is {v}.                   *)
(***************************************************************************)
EXTENDS Integers, Sequences, FiniteSets, TLC

\* ------------------------------------------------------------ constants

BRIGHTNESS_MIN == 0
DEFAULT_BRIGHTNESS_MAX == 255
SENSOR_MAX_LUX == 1000
\* time.sleep arguments in tenths of a second: ADJUST_INTERVAL = 0.5, and the
\* literal 5 of the override branch.
ADJUST_INTERVAL == 5
OVERRIDE_DELAY == 50
USER_ADJUST_THRESHOLD == 5
\* update_preferences keeps the newest 100 points.
MAX_POINTS == 100
\* curve_fit needs at least as many points as brightness_function has
\* parameters (a, b, c).
N_PARAMS == 3

\* ------------------------------------------------------------ bounds

\* The loop is explored while the store holds at most MaxSamples points.
MaxSamples == 1
\* The count of write_brightness calls saturates here.
MaxWrites == 2
\* Appends of the store-only specification.
MaxAppends == 105
\* Largest threshold of the override-test specification.
MaxThreshold == 6
\* Largest |lux| a fitted quadratic is evaluated at (the sums of the normal
\* equations stay within TLC's integers).
MaxFitLux == 4

\* ------------------------------------------------------------ optional values

None == {}
Some(v) == {v}
Val(o) == CHOOSE v \in o : TRUE

Abs(x) == IF x < 0 THEN -x ELSE x
Min2(a, b) == IF a < b THEN a ELSE b
Max2(a, b) == IF a > b THEN a ELSE b

\* ------------------------------------------------------------ inputs

\* Readings of the sensor file (None: missing or unparsable).
SensorValues == {None, Some(200), Some(1200)}
\* Contents of max_brightness (None: the file is missing).
MaxBrightnessValues == {None, Some(128), Some(1023)}
\* Backlight levels at start and levels a user sets by hand.
InitialBacklight == {51, 100}
UserValues == {56, 120}
\* Contents of the preference file at start (None: no file).  An existing
\* file may also hold text that is not JSON (file_valid = FALSE).
InitialFiles == {None, Some(<<>>), Some(<< <<200, 120>> >>)}

\* ------------------------------------------------------------ sample store

\* Variant: the point is stored as (brightness, lux).
update_preferences_swapped(data, sensor_value, user_brightness) ==
    LET appended == Append(data, <<user_brightness, sensor_value>>)
    IN  IF Len(appended) > MAX_POINTS THEN Tail(appended) ELSE appended

\* Variant: pop() instead of pop(0): the newest point is dropped.
update_preferences_pop_last(data, sensor_value, user_brightness) ==
    LET appended == Append(data, <<sensor_value, user_brightness>>)
    IN  IF Len(appended) > MAX_POINTS
        THEN SubSeq(appended, 1, Len(appended) - 1)
        ELSE appended

\* update_preferences, lines 156-160: append the point, then drop the oldest
\* one when more than 100 are held.
update_preferences(data, sensor_value, user_brightness) ==
    LET appended == Append(data, <<sensor_value, user_brightness>>)
    IN  IF Len(appended) > MAX_POINTS THEN Tail(appended) ELSE appended

\* load_preferences: the file's list when the file exists, else the list as
\* it is.
load_preferences(data, f) == IF f # None THEN Val(f) ELSE data

\* Variant: the file is written before the point is appended.
save_preferences_before_append(data) == Some(SubSeq(data, 1, Len(data) - 1))

\* save_preferences: the whole list, rewritten.
save_preferences(data) == Some(data)

\* ------------------------------------------------------------ brightness model

\* int() of the quotient n / d (d > 0): truncation toward zero.
IntOf(n, d) == IF n >= 0 THEN n \div d ELSE -((-n) \div d)

\* int(BRIGHTNESS_MIN + (lux / SENSOR_MAX_LUX) * (BRIGHTNESS_MAX - BRIGHTNESS_MIN)),
\* the expression of lines 125, 145 and 148.  For the lux values and the
\* maxima of this model the double-precision result equals the exact
\* truncated quotient.
linear_mapping(l, bmax) ==
    IntOf(BRIGHTNESS_MIN * SENSOR_MAX_LUX + l * (bmax - BRIGHTNESS_MIN),
          SENSOR_MAX_LUX)

\* Variant: lux is not clamped.
default_mapping_unclamped(l, bmax) == linear_mapping(l, bmax)

\* Lines 123-125: the mapping used when there are no points; lux is clamped
\* to [0, SENSOR_MAX_LUX] first.
default_mapping(l, bmax) ==
    linear_mapping(Min2(Max2(l, 0), SENSOR_MAX_LUX), bmax)

\* Lines 143-148: the value returned when curve_fit raises RuntimeError or
\* TypeError; lux is used as read.
fit_failure_mapping(l, bmax) == linear_mapping(l, bmax)

\* brightness_function with parameters a/den, b/den, c/den: the numerator of
\* the value over den.
brightness_function(l, p) == p.a * l * l + p.b * l + p.c

\* The lux values of the points.
LuxValues(data) == {data[i][1] : i \in 1..Len(data)}

\* Sum over the points of lux^k, and of lux^k * brightness.
RECURSIVE Power(_, _)
Power(x, k) == IF k = 0 THEN 1 ELSE x * Power(x, k - 1)
RECURSIVE SumX(_, _, _)
SumX(data, k, i) ==
    IF i > Len(data) THEN 0 ELSE Power(data[i][1], k) + SumX(data, k, i + 1)
RECURSIVE SumXY(_, _, _)
SumXY(data, k, i) ==
    IF i > Len(data) THEN 0
    ELSE Power(data[i][1], k) * data[i][2] + SumXY(data, k, i + 1)

\* The parameters minimising the sum of squared residuals of
\* brightness_function over the points, which is what curve_fit converges
\* to when the points determine the quadratic: the solution of the normal
\* equations, by Cramer's rule, over the common denominator den > 0.
least_squares(data) ==
    LET S0 == SumX(data, 0, 1)
        S1 == SumX(data, 1, 1)
        S2 == SumX(data, 2, 1)
        S3 == SumX(data, 3, 1)
        S4 == SumX(data, 4, 1)
        T0 == SumXY(data, 0, 1)
        T1 == SumXY(data, 1, 1)
        T2 == SumXY(data, 2, 1)
    IN  [ a   |-> T2 * (S2 * S0 - S1 * S1) - S3 * (T1 * S0 - S1 * T0)
                  + S2 * (T1 * S1 - S2 * T0),
          b   |-> S4 * (T1 * S0 - T0 * S1) - T2 * (S3 * S0 - S1 * S2)
                  + S2 * (S3 * T0 - S2 * T1),
          c   |-> S4 * (S2 * T0 - S1 * T1) - S3 * (S3 * T0 - S2 * T1)
                  + T2 * (S3 * S1 - S2 * S2),
          den |-> S4 * (S2 * S0 - S1 * S1) - S3 * (S3 * S0 - S1 * S2)
                  + S2 * (S3 * S1 - S2 * S2) ]

\* Parameters curve_fit may return when the points do not determine the
\* quadratic (fewer than three distinct lux values): the minimiser is then
\* not unique and the one the iteration stops at is not fixed by the source.
FitParams ==
    { [a |-> 0, b |-> 0, c |-> -3, den |-> 2],
      [a |-> 0, b |-> 0, c |-> 1, den |-> 2],
      [a |-> 0, b |-> 0, c |-> 3, den |-> 2],
      [a |-> 0, b |-> 1, c |-> 0, den |-> 2],
      [a |-> 1, b |-> 0, c |-> 0, den |-> 2] }

\* curve_fit(brightness_function, lux_values, brightness_values, maxfev=10000):
\* TypeError when there are fewer points than parameters; the least-squares
\* parameters when the points determine them; else some parameters, or
\* RuntimeError when the iteration does not converge.
curve_fit(data) ==
    IF Len(data) < N_PARAMS
    THEN {[kind |-> "TypeError"]}
    ELSE IF Cardinality(LuxValues(data)) < N_PARAMS
    THEN {[kind |-> "RuntimeError"]}
         \cup {[kind |-> "params", params |-> p] : p \in FitParams}
    ELSE {[kind |-> "params", params |-> least_squares(data)]}

\* Variant: int() without round(): the fraction is cut off.
clamp_round_truncating(num, den, bmax) ==
    IF num < BRIGHTNESS_MIN * den THEN {BRIGHTNESS_MIN}
    ELSE IF num > bmax * den THEN {bmax}
    ELSE {num \div den}

\* int(round(min(max(brightness, BRIGHTNESS_MIN), BRIGHTNESS_MAX))), line 142,
\* for brightness = num / den: clamp, then round to nearest.  The fitted
\* parameters are floating-point approximations, so a value halfway between
\* two integers may come out on either side.
clamp_round(num, den, bmax) ==
    IF num < BRIGHTNESS_MIN * den THEN {BRIGHTNESS_MIN}
    ELSE IF num > bmax * den THEN {bmax}
    ELSE LET q == num \div den
             r == num % den
         IN  IF 2 * r < den THEN {q}
             ELSE IF 2 * r > den THEN {q + 1}
             ELSE {q, q + 1}

\* calculate_brightness: the values it may return (one value, except where
\* curve_fit's result is not determined).
calculate_brightness(l, data, bmax) ==
    IF l = None THEN {None}
    ELSE IF data = <<>> THEN {Some(default_mapping(Val(l), bmax))}
    ELSE UNION { IF fit.kind = "params"
                 THEN { Some(v) :
                          v \in clamp_round(
                                   brightness_function(Val(l), fit.params),
                                   fit.params.den, bmax) }
                 ELSE { Some(fit_failure_mapping(Val(l), bmax)) }
               : fit \in curve_fit(data) }

\* ------------------------------------------------------------ override test

\* Variant: >= instead of >.
is_override_ge(current, previous, threshold) ==
    /\ current # None
    /\ previous # None
    /\ Abs(Val(current) - Val(previous)) >= threshold

\* Variant: an unset previous level counts as a change.
is_override_unset(current, previous, threshold) ==
    /\ current # None
    /\ IF previous = None
       THEN TRUE
       ELSE Abs(Val(current) - Val(previous)) > threshold

\* Lines 195-199.
is_override(current, previous, threshold) ==
    /\ current # None
    /\ previous # None
    /\ Abs(Val(current) - Val(previous)) > threshold

VARIABLES
    pc,                  \* where main() is
    brightness_data,     \* global: the list of (lux, brightness) points
    previous_brightness, \* global: None or the last applied/recorded level
    BRIGHTNESS_MAX,      \* global: clamped to the device maximum at startup
    lux,                 \* main's local: the reading of this cycle
    target_brightness,   \* main's local
    current_brightness,  \* main's local
    delay,               \* argument of the pending time.sleep (tenths of s)
    sensor,              \* the sensor file
    backlight,           \* the backlight brightness file
    max_brightness,      \* the backlight max_brightness file
    writable,            \* whether the process may write the backlight file
    file,                \* the preference file: None, or the list in it
    file_valid,          \* whether the preference file's text is whole JSON
    wrote,               \* history: what this cycle passed to write_brightness
    writes,              \* history: write_brightness calls so far (saturating)
    undisturbed,         \* history: no external event since the start
    user_jump,           \* history: the level in the backlight file was set by
                         \* hand, more than the threshold away from the level
                         \* it replaced, and main() has not read it yet
    seen_jump,           \* history: current_brightness is such a level
    appended,            \* history: every point given to update_preferences
    threshold,           \* the threshold the override test is applied with
    verdict              \* the override test's answer

vars == <<pc, brightness_data, previous_brightness, BRIGHTNESS_MAX, lux,
          target_brightness, current_brightness, delay, sensor, backlight,
          max_brightness, writable, file, file_valid, wrote, writes,
          undisturbed, user_jump, seen_jump, appended, threshold, verdict>>

env_vars == <<sensor, backlight, max_brightness, writable>>
locals == <<lux, target_brightness, current_brightness>>
disk == <<file, file_valid>>
\* Used by the specifications of the single functions only.
aux_vars == <<appended, threshold, verdict>>

\* ------------------------------------------------------------ start

\* Module level, lines 55-65, before main() runs; the files are as the host
\* has them.
Init ==
    /\ pc = "start"
    /\ brightness_data = <<>>
    /\ previous_brightness = None
    /\ BRIGHTNESS_MAX = DEFAULT_BRIGHTNESS_MAX
    /\ lux = None
    /\ target_brightness = None
    /\ current_brightness = None
    /\ delay = 0
    /\ sensor \in SensorValues
    /\ backlight \in {Some(b) : b \in InitialBacklight}
    /\ max_brightness \in MaxBrightnessValues
    /\ writable \in BOOLEAN
    /\ file \in InitialFiles
    /\ file_valid \in (IF file = Some(<<>>) THEN BOOLEAN ELSE {TRUE})
    /\ wrote = None
    /\ writes = 0
    /\ undisturbed = TRUE
    /\ user_jump = FALSE
    /\ seen_jump = FALSE
    /\ appended = <<>>
    /\ threshold = USER_ADJUST_THRESHOLD
    /\ verdict = FALSE

\* ------------------------------------------------------------ main()

\* Variant: the return of line 180 is missing, and the loop is entered with
\* BRIGHTNESS_MAX as it was.
Startup_no_return ==
    /\ pc = "start"
    /\ IF file # None /\ ~file_valid
       THEN /\ pc' = "crashed"
            /\ UNCHANGED <<brightness_data, BRIGHTNESS_MAX>>
       ELSE /\ brightness_data' = load_preferences(brightness_data, file)
            /\ BRIGHTNESS_MAX' =
                   IF max_brightness = None
                   THEN BRIGHTNESS_MAX
                   ELSE Min2(BRIGHTNESS_MAX, Val(max_brightness))
            /\ pc' = "sense"
    /\ UNCHANGED <<previous_brightness, locals, delay, env_vars, disk, wrote,
                   writes, undisturbed, user_jump, seen_jump, aux_vars>>

\* Lines 170-182: load the points, read the device maximum and clamp
\* BRIGHTNESS_MAX to it; return when max_brightness is missing.  json.load
\* (line 98) raises on text that is not JSON, and neither load_preferences
\* nor main() nor lines 215-219 catch that: the process dies.
Startup ==
    /\ pc = "start"
    /\ IF file # None /\ ~file_valid
       THEN /\ pc' = "crashed"
            /\ UNCHANGED <<brightness_data, BRIGHTNESS_MAX>>
       ELSE /\ brightness_data' = load_preferences(brightness_data, file)
            /\ IF max_brightness = None
               THEN /\ pc' = "exited"
                    /\ UNCHANGED BRIGHTNESS_MAX
               ELSE /\ BRIGHTNESS_MAX' =
                           Min2(BRIGHTNESS_MAX, Val(max_brightness))
                    /\ pc' = "sense"
    /\ UNCHANGED <<previous_brightness, locals, delay, env_vars, disk, wrote,
                   writes, undisturbed, user_jump, seen_jump, aux_vars>>

\* read_sensor, lines 68-74: the number in the sensor file, or None.
read_sensor == sensor

\* get_current_brightness, lines 77-83: the number in the backlight file, or
\* None.
get_current_brightness == backlight

\* Variant: the test of line 186 is missing.
no_reading_unchecked(l) == FALSE

\* Line 186: lux is None.
no_reading(l) == l = None

\* Lines 185-192: read the sensor; without a reading go to sleep, else
\* compute the target and read the backlight.
Sense ==
    /\ pc = "sense"
    /\ lux' = read_sensor
    /\ wrote' = None
    /\ IF no_reading(lux')
       THEN /\ delay' = ADJUST_INTERVAL
            /\ pc' = "sleep"
            /\ UNCHANGED <<target_brightness, current_brightness, user_jump,
                           seen_jump>>
       ELSE /\ target_brightness' \in
                   calculate_brightness(lux', brightness_data, BRIGHTNESS_MAX)
            /\ current_brightness' = get_current_brightness
            /\ seen_jump' = user_jump
            /\ user_jump' = FALSE
            /\ pc' = "classify"
            /\ UNCHANGED delay
    /\ UNCHANGED <<brightness_data, previous_brightness, BRIGHTNESS_MAX,
                   env_vars, disk, writes, undisturbed, aux_vars>>

\* Lines 195-204: the level was changed by hand: record the point, save,
\* remember the level and sleep 5 s.
Override ==
    /\ pc = "classify"
    /\ is_override(current_brightness, previous_brightness,
                   USER_ADJUST_THRESHOLD)
    /\ Len(brightness_data) < MaxSamples
    /\ brightness_data' =
           update_preferences(brightness_data, Val(lux), Val(current_brightness))
    /\ file' = save_preferences(brightness_data')
    /\ file_valid' = TRUE
    /\ previous_brightness' = current_brightness
    /\ delay' = OVERRIDE_DELAY
    /\ appended' = Append(appended, <<Val(lux), Val(current_brightness)>>)
    /\ pc' = "sleep"
    /\ UNCHANGED <<BRIGHTNESS_MAX, locals, env_vars, wrote, writes,
                   undisturbed, user_jump, seen_jump, threshold, verdict>>

\* Variant: the level read is written back instead of the target.
write_brightness_stale(brightness) ==
    backlight' = IF writable THEN current_brightness ELSE backlight

\* Variant: the write is dropped.
write_brightness_dropped(brightness) ==
    backlight' = backlight

\* write_brightness, lines 86-91: the level reaches the file unless the
\* process lacks permission, which is printed and swallowed.
write_brightness(brightness) ==
    backlight' = IF writable THEN brightness ELSE backlight

\* Variant: PermissionError is not caught in write_brightness (line 90
\* missing) and ends the process.
Act_uncaught ==
    /\ pc = "classify"
    /\ ~is_override(current_brightness, previous_brightness,
                    USER_ADJUST_THRESHOLD)
    /\ IF target_brightness # None /\ target_brightness # current_brightness
       THEN /\ write_brightness(target_brightness)
            /\ previous_brightness' =
                   IF writable THEN target_brightness ELSE previous_brightness
            /\ wrote' = target_brightness
            /\ writes' = Min2(writes + 1, MaxWrites)
            /\ user_jump' = (user_jump /\ ~writable)
            /\ pc' = IF writable THEN "sleep" ELSE "crashed"
            /\ delay' = IF writable THEN ADJUST_INTERVAL ELSE delay
       ELSE /\ UNCHANGED <<backlight, previous_brightness, wrote, writes,
                           user_jump>>
            /\ pc' = "sleep"
            /\ delay' = ADJUST_INTERVAL
    /\ UNCHANGED <<brightness_data, BRIGHTNESS_MAX, locals, sensor,
                   max_brightness, writable, disk, undisturbed, seen_jump,
                   aux_vars>>

\* Lines 207-212: no override: write the target when it differs from the
\* level read, then sleep ADJUST_INTERVAL.
Act ==
    /\ pc = "classify"
    /\ ~is_override(current_brightness, previous_brightness,
                    USER_ADJUST_THRESHOLD)
    /\ IF target_brightness # None /\ target_brightness # current_brightness
       THEN /\ write_brightness(target_brightness)
            /\ previous_brightness' = target_brightness
            /\ wrote' = target_brightness
            /\ writes' = Min2(writes + 1, MaxWrites)
            /\ user_jump' = (user_jump /\ ~writable)
       ELSE UNCHANGED <<backlight, previous_brightness, wrote, writes,
                        user_jump>>
    /\ delay' = ADJUST_INTERVAL
    /\ pc' = "sleep"
    /\ UNCHANGED <<brightness_data, BRIGHTNESS_MAX, locals, sensor,
                   max_brightness, writable, disk, undisturbed, seen_jump,
                   aux_vars>>

\* time.sleep returns and the loop starts over.
Sleep ==
    /\ pc = "sleep"
    /\ pc' = "sense"
    /\ UNCHANGED <<brightness_data, previous_brightness, BRIGHTNESS_MAX,
                   locals, delay, env_vars, disk, wrote, writes, undisturbed,
                   user_jump, seen_jump, appended, threshold, verdict>>

\* Lines 215-219: KeyboardInterrupt ends main() between two of its steps.
Interrupt ==
    /\ pc \in {"start", "sense", "classify", "sleep"}
    /\ pc' = "exited"
    /\ UNCHANGED <<brightness_data, previous_brightness, BRIGHTNESS_MAX,
                   locals, delay, env_vars, disk, wrote, writes, undisturbed,
                   user_jump, seen_jump, appended, threshold, verdict>>

\* Lines 104-106 cut short by KeyboardInterrupt: open(PREFERENCES_FILE, "w")
\* has emptied the file and json.dump, which writes the text piece by piece,
\* has not finished when the signal arrives; leaving the with block closes
\* the file with the pieces written so far, and lines 215-219 end the
\* process.  The point is in the list (line 156) but the file holds a
\* proper prefix of the text of a list, which is not JSON.
InterruptedSave ==
    /\ pc = "classify"
    /\ is_override(current_brightness, previous_brightness,
                   USER_ADJUST_THRESHOLD)
    /\ Len(brightness_data) < MaxSamples
    /\ brightness_data' =
           update_preferences(brightness_data, Val(lux), Val(current_brightness))
    /\ appended' = Append(appended, <<Val(lux), Val(current_brightness)>>)
    /\ file' = Some(<<>>)
    /\ file_valid' = FALSE
    /\ pc' = "exited"
    /\ UNCHANGED <<previous_brightness, BRIGHTNESS_MAX, locals, delay,
                   env_vars, wrote, writes, undisturbed, user_jump, seen_jump,
                   threshold, verdict>>

\* Lines 70-71 on a sensor file that exists but cannot be read (no
\* permission, or the driver answers with an I/O error): open or read raises
\* an OSError that is neither FileNotFoundError nor ValueError, line 72 does
\* not catch it, nor does anything up to lines 215-219: the process dies.
SensorUnreadable ==
    /\ pc = "sense"
    /\ sensor # None
    /\ pc' = "crashed"
    /\ undisturbed' = FALSE
    /\ UNCHANGED <<brightness_data, previous_brightness, BRIGHTNESS_MAX,
                   locals, delay, env_vars, disk, wrote, writes, user_jump,
                   seen_jump, aux_vars>>

\* Lines 79-80, the same for the backlight file, after the sensor was read
\* and the target computed (lines 185-191).
BacklightUnreadable ==
    /\ pc = "sense"
    /\ ~no_reading(read_sensor)
    /\ backlight # None
    /\ lux' = read_sensor
    /\ wrote' = None
    /\ target_brightness' \in
           calculate_brightness(lux', brightness_data, BRIGHTNESS_MAX)
    /\ pc' = "crashed"
    /\ undisturbed' = FALSE
    /\ UNCHANGED <<brightness_data, previous_brightness, BRIGHTNESS_MAX,
                   current_brightness, delay, env_vars, disk, writes,
                   user_jump, seen_jump, aux_vars>>

\* ------------------------------------------------------------ environment

Running == pc \in {"sense", "classify", "sleep"}

\* The ambient light, or the sensor's availability, changes.
SensorChange ==
    /\ Running
    /\ \E v \in SensorValues \ {sensor} : sensor' = v
    /\ undisturbed' = FALSE
    /\ UNCHANGED <<pc, brightness_data, previous_brightness, BRIGHTNESS_MAX,
                   locals, delay, backlight, max_brightness, writable, disk,
                   wrote, writes, user_jump, seen_jump, aux_vars>>

\* Somebody else sets the backlight level.
UserSetBrightness ==
    /\ Running
    /\ \E v \in UserValues :
          /\ backlight # Some(v)
          /\ backlight' = Some(v)
          /\ user_jump' = (/\ backlight # None
                           /\ Abs(v - Val(backlight)) > USER_ADJUST_THRESHOLD)
    /\ undisturbed' = FALSE
    /\ UNCHANGED <<pc, brightness_data, previous_brightness, BRIGHTNESS_MAX,
                   locals, delay, sensor, max_brightness, writable, disk,
                   wrote, writes, seen_jump, aux_vars>>

\* The backlight file becomes unreadable (missing, or not a number).
BacklightFault ==
    /\ Running
    /\ backlight # None
    /\ backlight' = None
    /\ user_jump' = FALSE
    /\ undisturbed' = FALSE
    /\ UNCHANGED <<pc, brightness_data, previous_brightness, BRIGHTNESS_MAX,
                   locals, delay, sensor, max_brightness, writable, disk,
                   wrote, writes, seen_jump, aux_vars>>

Next ==
    \/ Startup
    \/ Sense
    \/ Override
    \/ Act
    \/ Sleep
    \/ Interrupt
    \/ InterruptedSave
    \/ SensorUnreadable
    \/ BacklightUnreadable
    \/ SensorChange
    \/ UserSetBrightness
    \/ BacklightFault

Spec == Init /\ [][Next]_vars

\* ------------------------------------------------------------ nobody else sets the level

\* main() on a host where nothing but main() writes the backlight file: the
\* light changes, reads fail, the process may lack permission to write, but
\* UserSetBrightness and BacklightFault do not happen.
NextOwnWrites ==
    \/ Startup
    \/ Sense
    \/ Override
    \/ Act
    \/ Sleep
    \/ Interrupt
    \/ InterruptedSave
    \/ SensorUnreadable
    \/ BacklightUnreadable
    \/ SensorChange

SpecOwnWrites == Init /\ [][NextOwnWrites]_vars

\* ------------------------------------------------------------ the store alone

\* Steps by which the lux and the level of successive points advance.
LuxStep == 7
LevelStep == 1

\* update_preferences called MaxAppends times on an empty list, with points
\* that are all different.
InitStore ==
    /\ pc = "append"
    /\ brightness_data = <<>>
    /\ previous_brightness = None
    /\ BRIGHTNESS_MAX = DEFAULT_BRIGHTNESS_MAX
    /\ lux \in {Some(0), Some(200)}
    /\ target_brightness = None
    /\ current_brightness \in {Some(b) : b \in InitialBacklight}
    /\ delay = 0
    /\ sensor = lux
    /\ backlight = current_brightness
    /\ max_brightness = Some(DEFAULT_BRIGHTNESS_MAX)
    /\ writable = TRUE
    /\ file \in {None, Some(<<>>)}
    /\ file_valid = TRUE
    /\ wrote = None
    /\ writes = 0
    /\ undisturbed = TRUE
    /\ user_jump = FALSE
    /\ seen_jump = FALSE
    /\ appended = <<>>
    /\ threshold = USER_ADJUST_THRESHOLD
    /\ verdict = FALSE

\* update_preferences(lux, current_brightness), lines 151-162, save included;
\* then the next point is made ready.
AppendPoint ==
    /\ pc = "append"
    /\ Len(appended) < MaxAppends
    /\ brightness_data' =
           update_preferences(brightness_data, Val(lux), Val(current_brightness))
    /\ file' = save_preferences(brightness_data')
    /\ file_valid' = TRUE
    /\ appended' = Append(appended, <<Val(lux), Val(current_brightness)>>)
    /\ lux' = Some((Val(lux) + LuxStep) % (SENSOR_MAX_LUX + 1))
    /\ current_brightness' =
           Some((Val(current_brightness) + LevelStep) % (DEFAULT_BRIGHTNESS_MAX + 1))
    /\ sensor' = lux'
    /\ backlight' = current_brightness'
    /\ UNCHANGED <<pc, previous_brightness, BRIGHTNESS_MAX, target_brightness,
                   delay, max_brightness, writable, wrote, writes, undisturbed,
                   user_jump, seen_jump, threshold, verdict>>

NextStore == AppendPoint

SpecStore == InitStore /\ [][NextStore]_vars

\* ------------------------------------------------------------ the load and the store

\* A list of n points, all different.
Points(n) ==
    [i \in 1..n |-> <<(i * LuxStep) % (SENSOR_MAX_LUX + 1),
                      (i * LevelStep) % (DEFAULT_BRIGHTNESS_MAX + 1)>>]

\* Preference files found at start: none, an empty list, and lists of
\* lengths around the 100 of line 159.
LoadFiles ==
    {None} \cup {Some(Points(n)) :
                    n \in {0, MAX_POINTS - 1, MAX_POINTS, MAX_POINTS + 1}}

InitLoad ==
    /\ pc = "start"
    /\ brightness_data = <<>>
    /\ previous_brightness = None
    /\ BRIGHTNESS_MAX = DEFAULT_BRIGHTNESS_MAX
    /\ lux = Some(0)
    /\ target_brightness = None
    /\ current_brightness = Some(51)
    /\ delay = 0
    /\ sensor = lux
    /\ backlight = current_brightness
    /\ max_brightness = Some(DEFAULT_BRIGHTNESS_MAX)
    /\ writable = TRUE
    /\ file \in LoadFiles
    /\ file_valid = TRUE
    /\ wrote = None
    /\ writes = 0
    /\ undisturbed = TRUE
    /\ user_jump = FALSE
    /\ seen_jump = FALSE
    /\ appended = <<>>
    /\ threshold = USER_ADJUST_THRESHOLD
    /\ verdict = FALSE

\* load_preferences(), line 170, on a file that parses; the calls of
\* update_preferences follow.
Load ==
    /\ pc = "start"
    /\ brightness_data' = load_preferences(brightness_data, file)
    /\ pc' = "append"
    /\ UNCHANGED <<previous_brightness, BRIGHTNESS_MAX, locals, delay,
                   env_vars, disk, wrote, writes, undisturbed, user_jump,
                   seen_jump, aux_vars>>

NextLoad ==
    \/ Load
    \/ AppendPoint

SpecLoad == InitLoad /\ [][NextLoad]_vars

\* ------------------------------------------------------------ the override test alone

\* Levels the test is applied to.
TestLevels == {None} \cup {Some(b) : b \in {44, 47, 50, 53, 55, 56, 60}}

InitOverride ==
    /\ pc = "classify"
    /\ brightness_data = <<>>
    /\ previous_brightness \in TestLevels
    /\ BRIGHTNESS_MAX = DEFAULT_BRIGHTNESS_MAX
    /\ lux = Some(200)
    /\ target_brightness = None
    /\ current_brightness \in TestLevels
    /\ delay = 0
    /\ sensor = lux
    /\ backlight = current_brightness
    /\ max_brightness = Some(DEFAULT_BRIGHTNESS_MAX)
    /\ writable = TRUE
    /\ file = None
    /\ file_valid = TRUE
    /\ wrote = None
    /\ writes = 0
    /\ undisturbed = TRUE
    /\ user_jump = FALSE
    /\ seen_jump = FALSE
    /\ appended = <<>>
    /\ threshold \in 0..MaxThreshold
    /\ verdict = FALSE

\* The condition of lines 195-199, evaluated.
Classify ==
    /\ pc = "classify"
    /\ verdict' = is_override(current_brightness, previous_brightness, threshold)
    /\ pc' = "classified"
    /\ UNCHANGED <<brightness_data, previous_brightness, BRIGHTNESS_MAX,
                   locals, delay, env_vars, disk, wrote, writes, undisturbed,
                   user_jump, seen_jump, appended, threshold>>

NextOverride == Classify

SpecOverride == InitOverride /\ [][NextOverride]_vars

\* ------------------------------------------------------------ the brightness model alone

\* Lux values calculate_brightness is called with.
PredictLux == {-200, -3, 0, 1, 3, 4, 200, 500, 999, 1000, 1001, 1200}
\* The points held when it is called.
PredictStores ==
    { <<>>,
      << <<200, 120>> >>,
      << <<200, 120>>, <<200, 120>> >>,
      << <<200, 120>>, <<1200, 255>> >>,
      << <<200, 120>>, <<200, 120>>, <<200, 120>> >>,
      << <<0, 10>>, <<2, 120>>, <<4, 200>> >>,
      << <<0, 10>>, <<2, 120>>, <<4, 200>>, <<2, 100>> >>,
      << <<1, 90>>, <<3, 20>>, <<4, 60>>, <<0, 0>> >> }
\* The lux values it is called with, given the points held.
PredictLuxFor(data) ==
    IF Cardinality(LuxValues(data)) < N_PARAMS
    THEN PredictLux
    ELSE {l \in PredictLux : Abs(l) <= MaxFitLux}

\* After startup: the points are loaded and BRIGHTNESS_MAX is clamped.
InitPredict ==
    /\ pc = "predict"
    /\ brightness_data \in PredictStores
    /\ previous_brightness = None
    /\ max_brightness \in MaxBrightnessValues \ {None}
    /\ BRIGHTNESS_MAX = Min2(DEFAULT_BRIGHTNESS_MAX, Val(max_brightness))
    /\ lux = None
    /\ target_brightness = None
    /\ current_brightness = None
    /\ delay = 0
    /\ sensor = None
    /\ backlight \in {Some(b) : b \in InitialBacklight}
    /\ writable = TRUE
    /\ file = Some(brightness_data)
    /\ file_valid = TRUE
    /\ wrote = None
    /\ writes = 0
    /\ undisturbed = TRUE
    /\ user_jump = FALSE
    /\ seen_jump = FALSE
    /\ appended = <<>>
    /\ threshold = USER_ADJUST_THRESHOLD
    /\ verdict = FALSE

\* target_brightness = calculate_brightness(lux), line 191, for a reading.
Predict ==
    /\ pc = "predict"
    /\ \E l \in PredictLuxFor(brightness_data) :
          /\ sensor' = Some(l)
          /\ lux' = sensor'
          /\ target_brightness' \in
                 calculate_brightness(lux', brightness_data, BRIGHTNESS_MAX)
    /\ UNCHANGED <<pc, brightness_data, previous_brightness, BRIGHTNESS_MAX,
                   current_brightness, delay, backlight, max_brightness,
                   writable, disk, wrote, writes, undisturbed, user_jump,
                   seen_jump, aux_vars>>

NextPredict == Predict

SpecPredict == InitPredict /\ [][NextPredict]_vars

\* ------------------------------------------------------------ the fit alone

\* The most points the list grows to between calls of calculate_brightness.
MaxFitPoints == 4
\* Lists whose points determine the quadratic (three distinct lux values).
FitStores ==
    { << <<0, 10>>, <<2, 120>>, <<4, 200>> >>,
      << <<1, 90>>, <<3, 20>>, <<4, 60>> >> }
\* Points recorded between the calls.
FitPoints == { <<2, 100>>, <<0, 0>>, <<3, 255>> }

InitFit ==
    /\ pc = "predict"
    /\ brightness_data \in FitStores
    /\ previous_brightness = None
    /\ max_brightness \in MaxBrightnessValues \ {None}
    /\ BRIGHTNESS_MAX = Min2(DEFAULT_BRIGHTNESS_MAX, Val(max_brightness))
    /\ lux = None
    /\ target_brightness = None
    /\ current_brightness = None
    /\ delay = 0
    /\ sensor = None
    /\ backlight = Some(51)
    /\ writable = TRUE
    /\ file = Some(brightness_data)
    /\ file_valid = TRUE
    /\ wrote = None
    /\ writes = 0
    /\ undisturbed = TRUE
    /\ user_jump = FALSE
    /\ seen_jump = FALSE
    /\ appended = <<>>
    /\ threshold = USER_ADJUST_THRESHOLD
    /\ verdict = FALSE

\* update_preferences(lux, current_brightness), lines 151-162, between two
\* calls of calculate_brightness, as in an override cycle.
Learn ==
    /\ pc = "predict"
    /\ Len(brightness_data) < MaxFitPoints
    /\ \E pt \in FitPoints :
          /\ brightness_data' = update_preferences(brightness_data, pt[1], pt[2])
          /\ appended' = Append(appended, pt)
    /\ file' = save_preferences(brightness_data')
    /\ file_valid' = TRUE
    /\ UNCHANGED <<pc, previous_brightness, BRIGHTNESS_MAX, locals, delay,
                   env_vars, wrote, writes, undisturbed, user_jump, seen_jump,
                   threshold, verdict>>

NextFit ==
    \/ Predict
    \/ Learn

SpecFit == InitFit /\ [][NextFit]_vars

\* ------------------------------------------------------------ properties

\* A step of main() from the classification to the sleep.
ClassifyStep == pc = "classify" /\ pc' = "sleep"

\* The point recorded by the cycle in progress.
CyclePoint == <<Val(lux), Val(current_brightness)>>

\* C1: in a cycle with a sensor reading in which an override is detected,
\* exactly the point (lux, current brightness) is appended to the store,
\* previous_brightness becomes the current brightness, nothing is written
\* to the backlight, and the sleep that follows is the extended one, not
\* ADJUST_INTERVAL.
C1_OverrideCycle ==
    [][ ( /\ ClassifyStep
          /\ lux # None
          /\ is_override(current_brightness, previous_brightness,
                         USER_ADJUST_THRESHOLD) )
        => LET n == Len(brightness_data')
           IN  /\ n = Min2(Len(brightness_data) + 1, MAX_POINTS)
               /\ brightness_data'[n] = CyclePoint
               /\ \A i \in 1..(n - 1) :
                     brightness_data'[i] =
                         brightness_data[i + Len(brightness_data) + 1 - n]
               /\ appended' = Append(appended, CyclePoint)
               /\ previous_brightness' = current_brightness
               /\ backlight' = backlight
               /\ wrote' = None
               /\ writes' = writes
               /\ delay' = OVERRIDE_DELAY
               /\ delay' > ADJUST_INTERVAL ]_vars

\* C1 witness: an override cycle has run: its point is the last of the
\* store, the level is remembered, nothing was written, the long sleep is on.
C1_Witness ==
    /\ pc = "sleep"
    /\ delay = OVERRIDE_DELAY
    /\ appended # <<>>
    /\ brightness_data # <<>>
    /\ brightness_data[Len(brightness_data)] = CyclePoint
    /\ previous_brightness = current_brightness
    /\ wrote = None

\* C2: the override test answers true exactly when both levels are present
\* and they differ by more than the threshold; with a level absent, or a
\* difference equal to the threshold, it answers false.
C2_OverrideTest ==
    pc = "classified" =>
        verdict = ( /\ current_brightness # None
                    /\ previous_brightness # None
                    /\ \/ Val(current_brightness) - Val(previous_brightness)
                              > threshold
                       \/ Val(previous_brightness) - Val(current_brightness)
                              > threshold )

\* C2 witness: the test has answered false on a difference equal to the
\* threshold.
C2_Witness ==
    /\ pc = "classified"
    /\ current_brightness = Some(55)
    /\ previous_brightness = Some(50)
    /\ threshold = 5
    /\ verdict = FALSE

\* C3: the Act step runs only in a cycle without override; there, a target
\* that differs from the level read is written to the backlight and becomes
\* previous_brightness, and a target equal to the level read causes no write
\* and leaves previous_brightness alone.
C3_Act ==
    [][ ClassifyStep =>
          LET override == is_override(current_brightness, previous_brightness,
                                      USER_ADJUST_THRESHOLD)
          IN  /\ (wrote' # None \/ delay' = ADJUST_INTERVAL) => ~override
              /\ (~override /\ target_brightness # None
                            /\ target_brightness # current_brightness)
                 => /\ wrote' = target_brightness
                    /\ writable => backlight' = target_brightness
                    /\ previous_brightness' = target_brightness
              /\ (~override /\ target_brightness = current_brightness)
                 => /\ wrote' = None
                    /\ writes' = writes
                    /\ backlight' = backlight
                    /\ previous_brightness' = previous_brightness ]_vars

\* C3 witness: an Act step has written its target, which is now the level
\* of the backlight and previous_brightness.
C3_Witness ==
    /\ pc = "sleep"
    /\ delay = ADJUST_INTERVAL
    /\ wrote # None
    /\ wrote = target_brightness
    /\ backlight = wrote
    /\ previous_brightness = wrote
    /\ current_brightness # wrote

\* C4: a cycle whose sensor read yields nothing checks no override, writes
\* nothing, records nothing, leaves the store, the file and
\* previous_brightness as they are, and sleeps ADJUST_INTERVAL.
C4_NoReading ==
    [][ (pc = "sense" /\ sensor = None /\ pc' \notin {"sense", "exited"})
        => /\ pc' = "sleep"
           /\ delay' = ADJUST_INTERVAL
           /\ lux' = None
           /\ wrote' = None
           /\ UNCHANGED <<brightness_data, appended, file,
                          previous_brightness, backlight, writes,
                          target_brightness, current_brightness>> ]_vars

\* C4 witness: a cycle without reading has gone to sleep after the loop had
\* already applied a level.
C4_Witness ==
    /\ pc = "sleep"
    /\ lux = None
    /\ sensor = None
    /\ delay = ADJUST_INTERVAL
    /\ previous_brightness # None

\* C5: after n appends to an empty store, the store is the last
\* min(n, 100) points appended, in the order of their appending.
C5_FifoBound ==
    LET n == Len(appended)
        k == IF n < 100 THEN n ELSE 100
    IN  /\ Len(brightness_data) = k
        /\ Len(brightness_data) <= 100
        /\ \A i \in 1..k : brightness_data[i] = appended[n - k + i]

\* C5 witness: 105 points were appended and 100 are held, the oldest of
\* them being the sixth appended.
C5_Witness ==
    /\ Len(appended) = 105
    /\ Len(brightness_data) = 100
    /\ brightness_data[1] = appended[6]
    /\ brightness_data[1] # appended[1]

\* The default linear mapping as the specification words it: lux clamped to
\* [0, SENSOR_MAX_LUX], interpolated into [BRIGHTNESS_MIN, BRIGHTNESS_MAX],
\* truncated.
Interpolated(l) ==
    LET c == IF l < 0 THEN 0 ELSE IF l > SENSOR_MAX_LUX THEN SENSOR_MAX_LUX ELSE l
    IN  BRIGHTNESS_MIN
        + (c * (BRIGHTNESS_MAX - BRIGHTNESS_MIN)) \div SENSOR_MAX_LUX

InRange(b) == BRIGHTNESS_MIN <= b /\ b <= BRIGHTNESS_MAX

\* C6: in the loop, BRIGHTNESS_MAX having been clamped to the device
\* maximum at startup, every value calculate_brightness returns for a
\* present lux, whatever the store holds, and so every value written to the
\* backlight, lies in [BRIGHTNESS_MIN, BRIGHTNESS_MAX].
C6_PredictRange ==
    Running =>
        /\ BRIGHTNESS_MAX <= Val(max_brightness)
        /\ BRIGHTNESS_MAX <= DEFAULT_BRIGHTNESS_MAX
        /\ target_brightness # None => InRange(Val(target_brightness))
        /\ wrote # None => InRange(Val(wrote))

\* C7: with one or two points in the store, calculate_brightness returns
\* for every present lux the value of the default linear mapping.
C7_FitFallback ==
    (lux # None /\ Len(brightness_data) \in {1, 2})
        => target_brightness = Some(Interpolated(Val(lux)))

\* C8: with an empty store, lux 0 maps to BRIGHTNESS_MIN and SENSOR_MAX_LUX
\* to BRIGHTNESS_MAX, every lux (also outside [0, SENSOR_MAX_LUX]) maps into
\* [BRIGHTNESS_MIN, BRIGHTNESS_MAX], and a larger lux never maps to a lower
\* level.
C8_DefaultMapping ==
    /\ [] ( (brightness_data = <<>> /\ lux # None)
            => /\ target_brightness # None
               /\ InRange(Val(target_brightness))
               /\ Val(lux) = 0 => Val(target_brightness) = BRIGHTNESS_MIN
               /\ Val(lux) = SENSOR_MAX_LUX
                      => Val(target_brightness) = BRIGHTNESS_MAX )
    /\ [][ ( /\ brightness_data = <<>>
             /\ lux # None
             /\ lux' # None
             /\ Val(lux) <= Val(lux') )
           => Val(target_brightness) <= Val(target_brightness') ]_vars

\* C8 witness: with an empty store a lux above SENSOR_MAX_LUX was mapped to
\* BRIGHTNESS_MAX.
C8_Witness ==
    /\ brightness_data = <<>>
    /\ lux = Some(1200)
    /\ target_brightness = Some(BRIGHTNESS_MAX)

\* C9: with an empty store, a sensor that keeps returning the same lux, a
\* backlight the process may write and nobody else touches, the loop writes
\* at most once, what it writes is the default mapping of the lux (51 for
\* lux 200 and range [0, 255]), after a full cycle the backlight holds that
\* value, a backlight that already holds it is not written, and no point is
\* ever appended.
C9_SteadyState ==
    /\ [] ( ( /\ undisturbed
              /\ writable
              /\ pc # "start"
              /\ sensor # None
              /\ brightness_data = <<>> )
            => /\ writes <= 1
               /\ writes = 1 => backlight = Some(Interpolated(Val(sensor)))
               /\ (writes = 1 /\ sensor = Some(200) /\ BRIGHTNESS_MAX = 255)
                      => backlight = Some(51)
               /\ (pc = "sleep" /\ lux # None)
                      => backlight = Some(Interpolated(Val(sensor))) )
    /\ [][ ( /\ undisturbed
             /\ undisturbed'
             /\ writable
             /\ pc # "start"
             /\ sensor # None
             /\ brightness_data = <<>> )
           => /\ brightness_data' = <<>>
              /\ appended' = appended
              /\ file' = file
              /\ backlight = Some(Interpolated(Val(sensor)))
                     => (writes' = writes /\ backlight' = backlight) ]_vars

\* C9 witness: lux 200, backlight 100 at the start: 51 was written once, and
\* a later cycle has run to its sleep without writing.
C9_Witness ==
    /\ undisturbed
    /\ writable
    /\ sensor = Some(200)
    /\ brightness_data = <<>>
    /\ pc = "sleep"
    /\ writes = 1
    /\ wrote = None
    /\ current_brightness = Some(51)
    /\ backlight = Some(51)

\* C10, as claimed: whenever the level read was set by hand, more than the
\* threshold away from the level it replaced, the cycle appends the point
\* (lux, that level) and saves it, whether or not the loop has applied a
\* level before.
C10_AnyOrdering ==
    [][ (ClassifyStep /\ seen_jump)
        => /\ appended' = Append(appended, CyclePoint)
           /\ brightness_data' # <<>>
           /\ brightness_data'[Len(brightness_data')] = CyclePoint
           /\ file' = Some(brightness_data') ]_vars

\* C10, amended: a level set by hand is recorded, and saved, when
\* previous_brightness is set and the level is more than the threshold away
\* from it; while previous_brightness is unset nothing is recorded or saved,
\* and the loop writes its target over a level that differs from it.
C10_AfterAdjustment ==
    [][ (ClassifyStep /\ seen_jump)
        => /\ ( /\ previous_brightness # None
                /\ Abs(Val(current_brightness) - Val(previous_brightness))
                       > USER_ADJUST_THRESHOLD )
              => /\ appended' = Append(appended, CyclePoint)
                 /\ brightness_data' # <<>>
                 /\ brightness_data'[Len(brightness_data')] = CyclePoint
                 /\ file' = Some(brightness_data')
           /\ previous_brightness = None
              => /\ UNCHANGED <<brightness_data, appended, file>>
                 /\ target_brightness # current_brightness
                        => wrote' = target_brightness ]_vars

\* C10 witness: after the loop had written a level, 120 was set by hand at
\* lux 200, and the point (200, 120) is in the store and in the file.
C10_Witness ==
    /\ pc = "sleep"
    /\ seen_jump
    /\ writes >= 1
    /\ delay = OVERRIDE_DELAY
    /\ brightness_data = << <<200, 120>> >>
    /\ file = Some(brightness_data)
    /\ previous_brightness = Some(120)

\* C11: once a point has been appended, wherever main() stands between two
\* of its steps (before the sensor is read, before the branch is taken,
\* asleep), or has died there, the preference file holds whole JSON text
\* whose list is the list in memory: the append and the rewrite of the file
\* are one step of the cycle, so a crash between cycles loses no point.
C11_Persisted ==
    (appended # <<>> /\ pc \in {"sense", "classify", "sleep", "crashed"})
        => /\ file = Some(brightness_data)
           /\ file_valid

\* C11 witness: a point was appended, the 5 s sleep is over, and the file
\* holds the list with that point as its last.
C11_Witness ==
    /\ pc = "sense"
    /\ appended # <<>>
    /\ delay = OVERRIDE_DELAY
    /\ brightness_data # <<>>
    /\ brightness_data[Len(brightness_data)] = appended[Len(appended)]
    /\ file = Some(brightness_data)
    /\ file_valid

\* C12: when the process has exited on KeyboardInterrupt after a point was
\* appended, the preference file holds whole JSON text, and its list is the
\* list in memory with or without the last point (no file at all counts as
\* the list without it when that point is the only one): never a truncated
\* or partial text.
C12_CleanExit ==
    (pc = "exited" /\ appended # <<>>)
        => /\ file_valid
           /\ \/ file = Some(brightness_data)
              \/ file = Some(SubSeq(brightness_data, 1,
                                    Len(brightness_data) - 1))
              \/ file = None /\ Len(brightness_data) = 1

\* C13: a cycle that calls write_brightness without permission to write
\* goes on to the normal sleep of ADJUST_INTERVAL, from which the next cycle
\* starts; the level in the backlight file, the list, the file and the
\* record of appended points are as they were before the cycle's branch.
C13_WriteDenied ==
    [][ (pc = "classify" /\ wrote' # None /\ ~writable)
        => /\ pc' = "sleep"
           /\ delay' = ADJUST_INTERVAL
           /\ backlight' = backlight
           /\ UNCHANGED <<brightness_data, appended, disk>> ]_vars

\* C13 witness: at lux 200 the target 25 was passed to write_brightness
\* without permission; the level is still 51 and the cycle is asleep.
C13_Witness ==
    /\ pc = "sleep"
    /\ ~writable
    /\ wrote = Some(25)
    /\ backlight = Some(51)
    /\ delay = ADJUST_INTERVAL
    /\ brightness_data = <<>>
    /\ ENABLED Sleep

\* C14: when max_brightness cannot be opened (the file is missing, or no
\* backlight directory was found and the path is 'None/max_brightness'),
\* every step the process takes ends it: the loop is not entered, the sensor
\* and the backlight are not read, write_brightness is not called, the
\* backlight file and the preference file stay as they are, no point is
\* appended, and the list is at most what the startup load put in it.
C14_StartupFailure ==
    [][ max_brightness = None
        => /\ pc = "start"
           /\ pc' \in {"exited", "crashed"}
           /\ brightness_data' \in
                  {brightness_data, load_preferences(brightness_data, file)}
           /\ UNCHANGED <<lux, current_brightness, target_brightness,
                          previous_brightness, wrote, writes, backlight,
                          appended, disk>> ]_vars

\* C14 witness: max_brightness is missing, main() has loaded a file with a
\* point and returned; nothing was read or written.
C14_Witness ==
    /\ pc = "exited"
    /\ max_brightness = None
    /\ brightness_data # <<>>
    /\ file = Some(brightness_data)
    /\ lux = None
    /\ current_brightness = None
    /\ writes = 0

\* C15: when the preference file exists and its text is not JSON, the step
\* main() takes from its start does not end in a crash: the list is empty
\* after it, and unless the process is interrupted or max_brightness is
\* missing the loop is entered.
C15_MalformedAsEmpty ==
    [][ (pc = "start" /\ file # None /\ ~file_valid)
        => /\ pc' # "crashed"
           /\ brightness_data' = <<>>
           /\ (max_brightness # None /\ pc' # "exited") => pc' = "sense" ]_vars

\* C16: no read of the sensor file or of the backlight file ends the
\* process: whatever state the two files are in, the step main() takes from
\* the top of a cycle leads to the cycle's branch or to its sleep (or to the
\* exit on KeyboardInterrupt), and a cycle that goes straight to its sleep
\* has an absent reading.
C16_ReadFailure ==
    [][ pc = "sense"
        => /\ pc' \in {"sense", "classify", "sleep", "exited"}
           /\ pc' = "sleep" => lux' = None ]_vars

\* The residual of the quadratic with parameters p at point i, times p.den.
Residual(data, p, i) ==
    brightness_function(data[i][1], p) - p.den * data[i][2]

\* The derivative of the sum of squared residuals with respect to the
\* coefficient of lux^k, up to a positive factor.
RECURSIVE Gradient(_, _, _, _)
Gradient(data, p, k, i) ==
    IF i > Len(data) THEN 0
    ELSE Residual(data, p, i) * Power(data[i][1], k)
         + Gradient(data, p, k, i + 1)

\* t is an integer nearest to num / den clamped to [BRIGHTNESS_MIN, bmax].
NearestClamped(t, num, den, bmax) ==
    LET clamped == Min2(Max2(num, BRIGHTNESS_MIN * den), bmax * den)
    IN  2 * Abs(t * den - clamped) <= den

\* C17: when the points held determine the quadratic, every call of
\* calculate_brightness(lux) returns an integer nearest to the clamped value
\* at lux of the quadratic that minimises the sum of squared residuals over
\* all the points held at that call (the sum is convex, so the minimiser is
\* where its three derivatives vanish), also after points were added
\* between calls.
C17_LeastSquares ==
    [][ ( /\ brightness_data' = brightness_data
          /\ Cardinality(LuxValues(brightness_data)) >= N_PARAMS
          /\ lux' # None )
        => LET p == least_squares(brightness_data)
           IN  /\ p.den > 0
               /\ \A k \in 0..(N_PARAMS - 1) :
                      Gradient(brightness_data, p, k, 1) = 0
               /\ target_brightness' # None
               /\ NearestClamped(Val(target_brightness'),
                                 brightness_function(Val(lux'), p), p.den,
                                 BRIGHTNESS_MAX) ]_vars

\* C17 witness: with the points (0, 10), (2, 120), (4, 200) and the point
\* (2, 100) added later, the quadratic is 10 + 52.5 lux - 1.25 lux^2, and
\* calculate_brightness(3) has returned 156 for its value 156.25 (the
\* quadratic of the first three points alone gives 163.75 there).
C17_Witness ==
    /\ brightness_data = << <<0, 10>>, <<2, 120>>, <<4, 200>>, <<2, 100>> >>
    /\ appended = << <<2, 100>> >>
    /\ BRIGHTNESS_MAX = 255
    /\ lux = Some(3)
    /\ target_brightness = Some(156)

\* C18: while nothing but main() writes the backlight file, no cycle takes
\* the override branch: the step from a cycle's branch appends no point,
\* leaves the list as it is and does not start the 5 s sleep, whatever the
\* readings and whether or not the writes are permitted.
C18_OwnWrites ==
    [][ pc = "classify"
        => /\ appended' = appended
           /\ brightness_data' = brightness_data
           /\ delay' # OVERRIDE_DELAY ]_vars


\* C19: whatever list the preference file held at start and however many
\* points were appended since, the list never holds more than 100 points.
C19_LoadedBound == Len(brightness_data) <= MAX_POINTS

\* The cycle is at its branch and the level read is more than the
\* threshold away from a previous level that is set.
OverrideCycle ==
    /\ pc = "classify"
    /\ current_brightness # None
    /\ previous_brightness # None
    /\ Abs(Val(current_brightness) - Val(previous_brightness))
           > USER_ADJUST_THRESHOLD

\* C20: the startup step leaves the preference file as it is; after it,
\* every step other than the branch of an override cycle (reading the
\* sensor, with or without a reading; the branch that writes or does not
\* write the backlight; the sleep; anything the environment does) leaves
\* the list, the file and the record of appended points unchanged; and when
\* the list does change it becomes the list with the cycle's point
\* appended, not what the file holds.
C20_Frame ==
    [][ /\ pc = "start" => UNCHANGED disk
        /\ (pc # "start" /\ ~OverrideCycle)
              => UNCHANGED <<brightness_data, appended, disk>>
        /\ (pc # "start" /\ brightness_data' # brightness_data)
              => brightness_data' =
                     update_preferences(brightness_data, Val(lux),
                                        Val(current_brightness)) ]_vars

\* C20 witness: after a point was recorded and saved, a later cycle has
\* written its target to the backlight and gone to sleep; the list and the
\* file still hold that point only.
C20_Witness ==
    /\ pc = "sleep"
    /\ delay = ADJUST_INTERVAL
    /\ wrote # None
    /\ appended = << <<200, 120>> >>
    /\ brightness_data = appended
    /\ file = Some(brightness_data)
    /\ file_valid

====
